---- MODULE Spec2Model ----
(***************************************************************************)
(* Model of src/main.py: a FastAPI service with five route handlers over   *)
(* one table "posts" (id, title, content), reached through a per-request   *)
(* SQLAlchemy session obtained from get_db.                                *)
(*                                                                         *)
(* Every handler is split at its store statements (query, commit,          *)
(* refresh).  Each store statement either succeeds, raises a               *)
(* SQLAlchemyError (caught by the handler: rollback, HTTP 500) or raises   *)
(* some other exception (not caught by the handler: the framework answers  *)
(* 500, get_db's finally still closes the session).                        *)
(*                                                                         *)
(* Two specifications share the actions:                                   *)
(*   Spec         one worker process.  The handlers are "async def"        *)
(*                coroutines whose bodies contain no await, so the event   *)
(*                loop runs one handler body from its first statement to   *)
(*                its return before it starts another; get_db (a plain     *)
(*                generator dependency, run in the thread pool) opens and  *)
(*                closes sessions around the bodies.                       *)
(*   WorkersSpec  several worker processes on the same store: the store    *)
(*                statements of different requests interleave freely.      *)
(***************************************************************************)
EXTENDS Integers, FiniteSets, TLC

(* ------------------------------ bounds --------------------------------- *)
NumReqs == 2
MaxId == 2

Reqs == 1..NumReqs
Ids == 1..MaxId
Handles == 1..NumReqs
Titles == {"A", "B"}
Contents == {"x", "y"}

(* ------------------------------ values --------------------------------- *)
\* A row of table "posts" without its key (PostModel.title, PostModel.content).
Rows == [title : Titles, content : Contents]
\* No row under that key.
NoRow == [title |-> "-", content |-> "-"]
\* The request bodies of POST and PUT (class Post) that requests carry.
Post == {[title |-> "A", content |-> "x"], [title |-> "A", content |-> "y"],
         [title |-> "B", content |-> "y"]}
\* A PostModel instance, which is also what a handler returns.
Obj(i, row) == [id |-> i, title |-> row.title, content |-> row.content]
\* None (query(...).first() found nothing) / no instance held.
NoObj == [id |-> 0, title |-> "-", content |-> "-"]

Ops == {"get_posts", "get_post", "create_post", "update_post", "delete_post"}
Mutating == {"create_post", "update_post", "delete_post"}
\* What a store statement does: succeed, raise a SQLAlchemyError raised by the
\* store itself, or raise an exception that is no SQLAlchemyError.
Outcomes == {"ok", "OperationalError", "Exception"}

VARIABLES
    table,      \* committed contents of table posts: Ids -> Rows \cup {NoRow}
    sessions,   \* the open sessions (handles)
    pc,         \* per request: idle, start, commit, refresh, done
    op,         \* per request: the handler serving it
    post_id,    \* per request: the path parameter post_id of the running handler (0: none)
    post,       \* per request: the body (title, content) of the running handler
    db,         \* per request: the session get_db yielded (0: none)
    db_post,    \* per request: the instance the handler holds (post_data / db_post)
    answer,     \* the answer produced last: the request, its route and path
                \* parameter, the HTTP status, the detail of an error, the
                \* objects of a 200; and, as history, for a 200, the rows
                \* matched by the INSERT, UPDATE or DELETE of the handler
    dirty,      \* history: per request, its handler has committed a change of the table
    live        \* history: the ids a create answered 200 with and no delete
                \* has answered 200 for since

vars == <<table, sessions, pc, op, post_id, post, db, db_post, answer,
          dirty, live>>


(* ---------------------------- the store -------------------------------- *)
Present(t) == {i \in Ids : t[i] # NoRow}

\* db.query(PostModel).filter(PostModel.id == post_id).first()
QueryFirst(t, id) == IF t[id] = NoRow THEN NoObj ELSE Obj(id, t[id])

\* db.query(PostModel).all()
QueryAll(t) == {Obj(i, t[i]) : i \in Present(t)}

\* Variant of Found: the handler does not test what the query returned.
FoundUnchecked(obj) == TRUE

\* if post: / if db_post:
Found(obj) == obj # NoObj

\* The ids the store may generate for a new row: any key not in use (a
\* sequence never reuses a key, a rowid table reuses the highest).
FreeIds(t) == Ids \ Present(t)

\* Variant of FlushInsert: the two columns are filled from each other's field.
FlushInsertSwapped(t, id, p) ==
    [error |-> "", matched |-> 1,
     table |-> [t EXCEPT ![id] = [title |-> p.content, content |-> p.title]]]

\* db.add(post_data); db.commit(): INSERT of the submitted title and content
\* under the generated key.
FlushInsert(t, id, p) ==
    [error |-> "", matched |-> 1,
     table |-> [t EXCEPT ![id] = [title |-> p.title, content |-> p.content]]]

\* Variant of FlushUpdate: only the title is assigned before the commit.
FlushUpdateTitleOnly(t, loaded, p) ==
    IF p.title = loaded.title THEN [error |-> "", matched |-> 0, table |-> t]
    ELSE IF t[loaded.id] = NoRow
         THEN [error |-> "StaleDataError", matched |-> 0, table |-> t]
    ELSE [error |-> "", matched |-> 1,
          table |-> [t EXCEPT ![loaded.id] = [title |-> p.title, content |-> @.content]]]

\* Variant of FlushUpdate: the instance is merged, so that a row that is no
\* longer there is inserted again.
FlushUpdateMerge(t, loaded, p) ==
    [error |-> "", matched |-> 1,
     table |-> [t EXCEPT ![loaded.id] = [title |-> p.title, content |-> p.content]]]

\* db_post.title = post.title; db_post.content = post.content; db.commit():
\* the unit of work emits UPDATE ... WHERE id = :id for the attributes whose
\* value differs from the loaded one, and nothing when none differs.  An
\* UPDATE that matches no row raises StaleDataError (a SQLAlchemyError).
FlushUpdate(t, loaded, p) ==
    LET setTitle == p.title # loaded.title
        setContent == p.content # loaded.content
        id == loaded.id
    IN  IF ~setTitle /\ ~setContent THEN [error |-> "", matched |-> 0, table |-> t]
        ELSE IF t[id] = NoRow
             THEN [error |-> "StaleDataError", matched |-> 0, table |-> t]
        ELSE [error |-> "", matched |-> 1,
              table |-> [t EXCEPT ![id] =
                           [title |-> IF setTitle THEN p.title ELSE t[id].title,
                            content |-> IF setContent THEN p.content
                                        ELSE t[id].content]]]

\* Variant of FlushDelete: the commit runs without the delete being pending.
FlushDeleteNothing(t, loaded) == [error |-> "", matched |-> 0, table |-> t]

\* Variant of FlushDelete: the DELETE has no WHERE clause.
FlushDeleteAll(t, loaded) ==
    [error |-> "", matched |-> Cardinality(Present(t)),
     table |-> [i \in Ids |-> NoRow]]

\* Variant of FlushDelete: a DELETE that matches no row raises StaleDataError,
\* as it does with a version counter mapped.
FlushDeleteChecked(t, loaded) ==
    IF t[loaded.id] = NoRow
    THEN [error |-> "StaleDataError", matched |-> 0, table |-> t]
    ELSE [error |-> "", matched |-> 1, table |-> [t EXCEPT ![loaded.id] = NoRow]]

\* db.delete(db_post); db.commit(): DELETE ... WHERE id = :id.  A DELETE that
\* matches no row only warns (no version counter is mapped), so the commit
\* succeeds.
FlushDelete(t, loaded) ==
    [error |-> "", matched |-> IF t[loaded.id] = NoRow THEN 0 ELSE 1,
     table |-> [t EXCEPT ![loaded.id] = NoRow]]

\* db.refresh(instance): SELECT by key; InvalidRequestError (a
\* SQLAlchemyError) when the row is gone.
Refresh(t, id) ==
    IF t[id] = NoRow THEN [error |-> "InvalidRequestError", obj |-> NoObj]
    ELSE [error |-> "", obj |-> Obj(id, t[id])]

(* --------------------------- get_db ------------------------------------ *)
\* Variant of SessionLocal: one session of the module serves every request.
SessionShared(open) == 1

\* db = SessionLocal(): a new session, distinct from every open one.
SessionLocal(open) == CHOOSE h \in Handles \ open : \A g \in Handles \ open : h <= g

\* finally: db.close()
CloseSession(open, h) == open \ {h}

(* --------------------------- answers ----------------------------------- *)
NoAnswer ==
    [req |-> 0, op |-> "none", post_id |-> 0, status |-> 0, detail |-> "", objs |-> {},
     matched |-> 0]

\* The handler has left its body with an answer: what it held is dropped.
Answer(r, id, code, msg, objs, n) ==
    /\ answer' = [req |-> r, op |-> op[r], post_id |-> id, status |-> code,
                  detail |-> msg, objs |-> objs, matched |-> n]
    /\ pc' = [pc EXCEPT ![r] = "done"]
    /\ op' = [op EXCEPT ![r] = "none"]
    /\ post_id' = [post_id EXCEPT ![r] = 0]
    /\ post' = [post EXCEPT ![r] = NoRow]
    /\ db_post' = [db_post EXCEPT ![r] = NoObj]
    /\ dirty' = [dirty EXCEPT ![r] = FALSE]

\* return <objects>
Return(r, id, objs, n) == Answer(r, id, 200, "", objs, n)

\* raise HTTPException(status_code=code, detail=msg)
Raise(r, id, code, msg) == Answer(r, id, code, msg, {}, 0)

\* except SQLAlchemyError as e: [db.rollback()] raise HTTPException(500, str(e));
\* any other exception leaves the handler and the framework answers 500.
\* The rollback discards what the session has not committed: the committed
\* table is what it was.
Fail(r, id, err) ==
    IF err = "Exception" THEN Raise(r, id, 500, "Internal Server Error")
    ELSE Raise(r, id, 500, err)

\* The handler, called with path parameter id and body p, goes on to its next
\* store statement, holding instance obj; w: it has just committed a change.
Goto(r, next, id, p, obj, w) ==
    /\ pc' = [pc EXCEPT ![r] = next]
    /\ post_id' = [post_id EXCEPT ![r] = id]
    /\ post' = [post EXCEPT ![r] = p]
    /\ db_post' = [db_post EXCEPT ![r] = obj]
    /\ dirty' = [dirty EXCEPT ![r] = w]
    /\ UNCHANGED <<op, answer>>

\* The event loop of the worker is not inside another handler body.
LoopIdle == \A q \in Reqs : pc[q] \notin {"commit", "refresh"}

(* ----------------------------- Init ------------------------------------ *)
Init ==
    /\ table = [i \in Ids |-> NoRow]
    /\ sessions = {}
    /\ pc = [r \in Reqs |-> "idle"]
    /\ op = [r \in Reqs |-> "none"]
    /\ post_id = [r \in Reqs |-> 0]
    /\ post = [r \in Reqs |-> NoRow]
    /\ db = [r \in Reqs |-> 0]
    /\ db_post = [r \in Reqs |-> NoObj]
    /\ answer = NoAnswer
    /\ dirty = [r \in Reqs |-> FALSE]
    /\ live = {}

(* ---------------------------- actions ---------------------------------- *)
\* A request arrives and Depends(get_db) runs get_db up to its yield.
Receive(r, o) ==
    /\ pc[r] = "idle"
    /\ pc' = [pc EXCEPT ![r] = "start"]
    /\ op' = [op EXCEPT ![r] = o]
    /\ db' = [db EXCEPT ![r] = SessionLocal(sessions)]
    /\ sessions' = sessions \cup {SessionLocal(sessions)}
    /\ UNCHANGED <<table, post_id, post, db_post, answer, dirty, live>>

\* GET /posts
GetPosts(r, out) ==
    /\ pc[r] = "start" /\ op[r] = "get_posts"
    /\ IF out = "ok" THEN Return(r, 0, QueryAll(table), 0) ELSE Fail(r, 0, out)
    /\ UNCHANGED <<table, sessions, db, live>>

\* GET /posts/{post_id}
GetPost(r, id, out) ==
    /\ pc[r] = "start" /\ op[r] = "get_post"
    /\ IF out # "ok" THEN Fail(r, id, out)
       ELSE IF Found(QueryFirst(table, id))
            THEN Return(r, id, {QueryFirst(table, id)}, 0)
            ELSE Raise(r, id, 404, "Post no encontrado")
    /\ UNCHANGED <<table, sessions, db, live>>

\* POST /posts: post_data = PostModel(...); db.add(post_data); db.commit()
CreateCommit(r, p, out, id) ==
    /\ pc[r] = "start" /\ op[r] = "create_post"
    /\ id \in FreeIds(table)
    /\ IF out = "ok"
       THEN /\ table' = FlushInsert(table, id, p).table
            /\ Goto(r, "refresh", 0, p, Obj(id, NoRow), TRUE)
       ELSE /\ Fail(r, 0, out)
            /\ UNCHANGED table
    /\ UNCHANGED <<sessions, db, live>>

\* POST /posts: db.refresh(post_data); return post_data
CreateRefresh(r, out) ==
    /\ pc[r] = "refresh" /\ op[r] = "create_post"
    /\ LET got == Refresh(table, db_post[r].id)
           err == IF out # "ok" THEN out ELSE got.error
       IN  IF err = ""
           THEN /\ Return(r, 0, {got.obj}, 1)
                /\ live' = live \cup {got.obj.id}
           ELSE /\ Fail(r, 0, err)
                /\ UNCHANGED live
    /\ UNCHANGED <<table, sessions, db>>

\* PUT /posts/{post_id}: db_post = db.query(...).first(); if db_post: ... else 404
UpdateQuery(r, id, p, out) ==
    /\ pc[r] = "start" /\ op[r] = "update_post"
    /\ IF out # "ok" THEN Fail(r, id, out)
       ELSE IF Found(QueryFirst(table, id))
            THEN Goto(r, "commit", id, p, QueryFirst(table, id), FALSE)
            ELSE Raise(r, id, 404, "Post no encontrado")
    /\ UNCHANGED <<table, sessions, db, live>>

\* PUT /posts/{post_id}: db_post.title = ...; db_post.content = ...; db.commit()
UpdateCommit(r, out) ==
    /\ pc[r] = "commit" /\ op[r] = "update_post"
    /\ LET done == FlushUpdate(table, db_post[r], post[r])
           err == IF out # "ok" THEN out ELSE done.error
       IN  IF err = ""
           THEN /\ table' = done.table
                /\ Goto(r, "refresh", post_id[r], post[r], db_post[r], done.table # table)
           ELSE /\ Fail(r, post_id[r], err)
                /\ UNCHANGED table
    /\ UNCHANGED <<sessions, db, live>>

\* PUT /posts/{post_id}: db.refresh(db_post); return db_post
UpdateRefresh(r, out) ==
    /\ pc[r] = "refresh" /\ op[r] = "update_post"
    /\ LET got == Refresh(table, db_post[r].id)
           err == IF out # "ok" THEN out ELSE got.error
       IN  IF err = "" THEN Return(r, post_id[r], {got.obj}, IF dirty[r] THEN 1 ELSE 0) ELSE Fail(r, post_id[r], err)
    /\ UNCHANGED <<table, sessions, db, live>>

\* DELETE /posts/{post_id}: db_post = db.query(...).first(); if db_post: ... else 404
DeleteQuery(r, id, out) ==
    /\ pc[r] = "start" /\ op[r] = "delete_post"
    /\ IF out # "ok" THEN Fail(r, id, out)
       ELSE IF Found(QueryFirst(table, id))
            THEN Goto(r, "commit", id, NoRow, QueryFirst(table, id), FALSE)
            ELSE Raise(r, id, 404, "Post no encontrado")
    /\ UNCHANGED <<table, sessions, db, live>>

\* DELETE /posts/{post_id}: db.delete(db_post); db.commit(); return db_post
DeleteCommit(r, out) ==
    /\ pc[r] = "commit" /\ op[r] = "delete_post"
    /\ LET done == FlushDelete(table, db_post[r])
           err == IF out # "ok" THEN out ELSE done.error
       IN  IF err = ""
           THEN /\ table' = done.table
                /\ Return(r, post_id[r], {db_post[r]}, done.matched)
                /\ live' = live \ {db_post[r].id}
           ELSE /\ Fail(r, post_id[r], err)
                /\ UNCHANGED <<table, live>>
    /\ UNCHANGED <<sessions, db>>

\* The answer is sent; get_db resumes after its yield: finally: db.close().
Close(r) ==
    /\ pc[r] = "done"
    /\ sessions' = CloseSession(sessions, db[r])
    /\ pc' = [pc EXCEPT ![r] = "idle"]
    /\ db' = [db EXCEPT ![r] = 0]
    /\ answer' = IF answer.req = r THEN NoAnswer ELSE answer
    /\ UNCHANGED <<table, op, post_id, post, db_post, dirty, live>>

(* ------------------------- specifications ------------------------------ *)
\* A request for one of the routes that depend on get_db.
Arrive(r) == \E o \in Ops : Receive(r, o)

\* The handler is called with the path parameter and the body of its request
\* and runs up to its first store statement.
Enter(r) ==
    \E out \in Outcomes :
        \/ GetPosts(r, out)
        \/ \E id \in Ids : GetPost(r, id, out)
        \/ \E p \in Post, id \in Ids : CreateCommit(r, p, out, id)
        \/ \E id \in Ids, p \in Post : UpdateQuery(r, id, p, out)
        \/ \E id \in Ids : DeleteQuery(r, id, out)

\* The same, on the event loop of a single worker: only when no other handler
\* body is in progress.
LoopEnter(r) ==
    \E out \in Outcomes :
        \/ LoopIdle /\ GetPosts(r, out)
        \/ \E id \in Ids : LoopIdle /\ GetPost(r, id, out)
        \/ \E p \in Post, id \in Ids : LoopIdle /\ CreateCommit(r, p, out, id)
        \/ \E id \in Ids, p \in Post : LoopIdle /\ UpdateQuery(r, id, p, out)
        \/ \E id \in Ids : LoopIdle /\ DeleteQuery(r, id, out)

\* The later store statements of a handler body.
Continue(r) ==
    \E out \in Outcomes :
        \/ CreateRefresh(r, out)
        \/ UpdateCommit(r, out)
        \/ UpdateRefresh(r, out)
        \/ DeleteCommit(r, out)

Next ==
    \E r \in Reqs :
        \/ Arrive(r)
        \/ LoopEnter(r)
        \/ Continue(r)
        \/ Close(r)

Spec == Init /\ [][Next]_vars

WorkersNext ==
    \E r \in Reqs :
        \/ Arrive(r)
        \/ Enter(r)
        \/ Continue(r)
        \/ Close(r)

WorkersSpec == Init /\ [][WorkersNext]_vars

(* ------------------- vocabulary of the properties ---------------------- *)
\* The handler of request r answers in this step: answer' is its answer.
Answers(r) == pc[r] # "done" /\ pc'[r] = "done"

\* Request r takes this step.
Stepped(r) == pc'[r] # pc[r]

\* The answer is 404 with the fixed detail.
NotFound(a) == a.status = 404 /\ a.detail = "Post no encontrado" /\ a.objs = {}

\* The answer is the 500 of a store statement of the handler that failed in
\* the store (the failure is an input of the step, not a result of the data).
StoreDown(a) ==
    a.status = 500 /\ a.detail \in {"OperationalError", "Internal Server Error"}

\* The step is the commit of a create_post that inserts the row of key i.
Inserts(q, i) ==
    /\ op[q] = "create_post" /\ pc[q] = "start" /\ pc'[q] = "refresh"
    /\ db_post'[q].id = i

\* The step is the commit of an update_post or delete_post holding the
\* instance of key i.
Writes(q, i) ==
    /\ op[q] \in {"update_post", "delete_post"} /\ pc[q] = "commit" /\ Stepped(q)
    /\ db_post[q].id = i

(* ------------------------------- C1 ------------------------------------ *)
\* C1: a create_post that answers 200 returns {id, title, content} with the
\* submitted title and content and leaves exactly that row under the returned
\* id; a row, once there, is changed or removed only by the commit of an
\* update_post or delete_post of its id; and a get_post of an id whose row is
\* there returns that id with the row's title and content (unless the get's
\* own query fails in the store).  Hence a get of the returned id, with no
\* update or delete of it in between, returns what the create returned.
C1_CreateThenGet ==
    [][\A r \in Reqs :
        /\ (op[r] = "create_post" /\ Answers(r) /\ answer'.status = 200) =>
              /\ db_post[r].id \in Ids
              /\ answer'.objs = {Obj(db_post[r].id, post[r])}
              /\ table'[db_post[r].id] = post[r]
        /\ (op[r] = "get_post" /\ Answers(r) /\ table[answer'.post_id] # NoRow) =>
              \/ /\ answer'.status = 200
                 /\ answer'.objs = {Obj(answer'.post_id, table[answer'.post_id])}
              \/ StoreDown(answer')
        /\ \A i \in Ids :
              (table[i] # NoRow /\ table'[i] # table[i]) => \E q \in Reqs : Writes(q, i)
      ]_vars

\* A get_post has answered 200 with the row of an id that a create returned
\* and no delete has removed.
C1_Witness ==
    /\ answer.op = "get_post" /\ answer.status = 200
    /\ answer.post_id \in live
    /\ answer.objs = {Obj(answer.post_id, table[answer.post_id])}

(* ------------------------------- C2 ------------------------------------ *)
\* C2: a get_posts that answers 200 returns exactly the posts that a create
\* which answered 200 created and no delete which answered 200 removed.
C2_ListIsLive ==
    [][\A r \in Reqs :
        (op[r] = "get_posts" /\ Answers(r) /\ answer'.status = 200) =>
            {o.id : o \in answer'.objs} = live
      ]_vars

(* ------------------------------- C3 ------------------------------------ *)
\* C3: when delete_post answers 200 for an id, no row is under that id; a row
\* comes under an id that has none only by the commit of a create_post; and a
\* get_post of an id that has no row answers 404 "Post no encontrado" (unless
\* the get's own query fails in the store).
C3_DeleteThenGet404 ==
    [][\A r \in Reqs :
        /\ (op[r] = "delete_post" /\ Answers(r) /\ answer'.status = 200) =>
              table'[answer'.post_id] = NoRow
        /\ (op[r] = "get_post" /\ Answers(r) /\ table[answer'.post_id] = NoRow) =>
              NotFound(answer') \/ StoreDown(answer')
        /\ \A i \in Ids :
              (table[i] = NoRow /\ table'[i] # NoRow) => \E q \in Reqs : Inserts(q, i)
      ]_vars

\* A delete_post has answered 200 after removing the row, and a get_post is
\* about to run.
C3_Witness ==
    /\ answer.op = "delete_post" /\ answer.status = 200 /\ answer.matched = 1
    /\ table[answer.post_id] = NoRow
    /\ \E q \in Reqs : op[q] = "get_post" /\ pc[q] = "start"

(* ------------------------------- C4 ------------------------------------ *)
\* C4: an update_post of an id that has no row answers 404 (unless its query
\* fails in the store), whatever the body, and leaves the table as it was: the
\* handler goes on to its commit only when the row is there, and neither the
\* answer nor the release of the session changes the table.
C4_UpdateMissing404 ==
    [][\A r \in Reqs :
        /\ (op[r] = "update_post" /\ pc[r] = "start" /\ Answers(r)
              /\ table[answer'.post_id] = NoRow) =>
              /\ NotFound(answer') \/ StoreDown(answer')
              /\ table' = table
        /\ (op[r] = "update_post" /\ pc[r] = "start" /\ pc'[r] = "commit") =>
              table[post_id'[r]] # NoRow
        /\ (pc[r] = "done" /\ Stepped(r)) => table' = table
      ]_vars

\* An update_post of an id without a row has answered 404 while another row
\* is in the table.
C4_Witness ==
    /\ answer.op = "update_post" /\ NotFound(answer)
    /\ table[answer.post_id] = NoRow
    /\ Present(table) # {}

(* ------------------------------- C5 ------------------------------------ *)
\* C5: when a create_post, update_post or delete_post answers 500 for a
\* SQLAlchemyError, at whichever store statement, the table is what it was
\* before the request: the handler has committed no change.
C5_FailureRollsBack ==
    [][\A r \in Reqs :
        (op[r] \in Mutating /\ Answers(r) /\ answer'.status = 500
           /\ answer'.detail # "Internal Server Error") =>
            ~dirty[r] /\ table' = table
      ]_vars

(* ------------------------------- C6 ------------------------------------ *)
\* C6: every request in progress holds an open session of its own, no two
\* requests hold the same session, and the open sessions are exactly those of
\* the requests in progress: whatever the answer was, the session is closed
\* with the request, and none is open once no request is in progress.
C6_SessionPerRequest ==
    /\ \A r \in Reqs : pc[r] # "idle" => db[r] \in sessions
    /\ \A r, q \in Reqs : (r # q /\ pc[r] # "idle" /\ pc[q] # "idle") => db[r] # db[q]
    /\ sessions = {db[r] : r \in {q \in Reqs : pc[q] # "idle"}}

\* Two requests are in progress, each with its session, one of them answered
\* with the 500 of an exception its handler did not catch.
C6_Witness ==
    /\ \E r, q \in Reqs : r # q /\ pc[r] = "done" /\ pc[q] \in {"commit", "refresh"}
                          /\ answer.req = r
    /\ answer.detail = "Internal Server Error"
    /\ Cardinality(sessions) = 2

(* ------------------------------- C7 ------------------------------------ *)
\* C7: a delete_post that answers 200 found the row, returns the id, title
\* and content the row held just before, and removes that row and no other;
\* a delete_post of an id without a row answers 404 (unless its query fails
\* in the store); and a delete_post that does not answer 200 changes nothing.
C7_DeleteReturnsRow ==
    [][\A r \in Reqs :
        /\ (op[r] = "delete_post" /\ Answers(r) /\ answer'.status = 200) =>
              /\ table[answer'.post_id] # NoRow
              /\ answer'.objs = {Obj(answer'.post_id, table[answer'.post_id])}
              /\ table' = [table EXCEPT ![answer'.post_id] = NoRow]
        /\ (op[r] = "delete_post" /\ pc[r] = "start" /\ Answers(r)
              /\ table[answer'.post_id] = NoRow) =>
              NotFound(answer') \/ StoreDown(answer')
        /\ (op[r] = "delete_post" /\ pc[r] = "start" /\ pc'[r] = "commit") =>
              table[post_id'[r]] # NoRow
        /\ (op[r] = "delete_post" /\ Stepped(r)
              /\ ~(Answers(r) /\ answer'.status = 200)) =>
              table' = table
      ]_vars

\* A delete_post has answered 200 with the row it removed, and the other row
\* of the table is still there.
C7_Witness ==
    /\ answer.op = "delete_post" /\ answer.status = 200
    /\ \E o \in answer.objs : o.id = answer.post_id /\ o.title \in Titles
    /\ table[answer.post_id] = NoRow
    /\ Cardinality(Present(table)) = MaxId - 1

(* ------------------------------- C8 ------------------------------------ *)
\* C8: the commit of an update_post finds the row and replaces its title and
\* content by those of the body, leaving its id, every other row and the
\* number of rows as they were; no other step of an update_post changes the
\* table; and an update_post that answers 200 returns the path id with the
\* submitted title and content, which is the row then in the table.
C8_UpdateInPlace ==
    [][\A r \in Reqs :
        /\ (op[r] = "update_post" /\ pc[r] = "commit" /\ pc'[r] = "refresh") =>
              /\ table[post_id[r]] # NoRow
              /\ table' = [table EXCEPT ![post_id[r]] = post[r]]
              /\ Cardinality(Present(table')) = Cardinality(Present(table))
        /\ (op[r] = "update_post" /\ Stepped(r)
              /\ ~(pc[r] = "commit" /\ pc'[r] = "refresh")) =>
              table' = table
        /\ (op[r] = "update_post" /\ Answers(r) /\ answer'.status = 200) =>
              /\ answer'.post_id = post_id[r]
              /\ answer'.objs = {Obj(post_id[r], post[r])}
              /\ table'[post_id[r]] = post[r]
      ]_vars

\* An update_post has answered 200 after changing its row, beside another row.
C8_Witness ==
    /\ answer.op = "update_post" /\ answer.status = 200 /\ answer.matched = 1
    /\ answer.objs = {Obj(answer.post_id, table[answer.post_id])}
    /\ Cardinality(Present(table)) = MaxId

(* ------------------------------- C9 ------------------------------------ *)
\* C9 as claimed: a delete_post answers 200 only when its own DELETE removed
\* the row, so that at most one delete answers 200 for each creation and a
\* delete whose commit finds the row already removed does not.
C9_OneDeleteSucceeds ==
    (answer.op = "delete_post" /\ answer.status = 200) => answer.matched = 1

\* C9 as amended: at most one of the concurrent deletes removes the row (a
\* DELETE matches a row only if the row is there), but every delete_post whose
\* lookup found the row answers 200 with the instance its lookup loaded once
\* its commit raises nothing in the store, also when the commit finds the row
\* already removed by another request; the row is absent afterwards.
C9_EveryLookedUpDeleteSucceeds ==
    [][\A r \in Reqs :
        (op[r] = "delete_post" /\ pc[r] = "commit" /\ Answers(r)) =>
            \/ /\ answer'.status = 200
               /\ answer'.objs = {db_post[r]}
               /\ answer'.matched = (IF table[db_post[r].id] = NoRow THEN 0 ELSE 1)
               /\ table' = [table EXCEPT ![db_post[r].id] = NoRow]
            \/ StoreDown(answer') /\ table' = table
      ]_vars

\* A delete_post has answered 200 although its DELETE matched no row.
C9_Witness ==
    answer.op = "delete_post" /\ answer.status = 200 /\ answer.matched = 0

(* ------------------------------- C10 ----------------------------------- *)
\* C10: an update_post whose row is no longer there when it commits or
\* refreshes writes nothing and, if it answers, answers 500; an update_post
\* that answers 200 returns the row that is then in the table; and a row
\* comes under an id that has none only by the commit of a create_post, so a
\* row that a delete removed stays absent whatever updates were in flight.
C10_UpdateCannotResurrect ==
    [][\A r \in Reqs :
        /\ (op[r] = "update_post" /\ pc[r] \in {"commit", "refresh"} /\ Stepped(r)
              /\ table[post_id[r]] = NoRow) =>
              /\ table' = table
              /\ Answers(r) => answer'.status = 500
        /\ (op[r] = "update_post" /\ Answers(r) /\ answer'.status = 200) =>
              /\ table'[answer'.post_id] # NoRow
              /\ answer'.objs = {Obj(answer'.post_id, table'[answer'.post_id])}
        /\ \A i \in Ids :
              (table[i] = NoRow /\ table'[i] # NoRow) => \E q \in Reqs : Inserts(q, i)
      ]_vars

\* An update_post has answered 500 because its UPDATE matched no row: the row
\* its lookup found was removed before it committed.
C10_Witness ==
    /\ answer.op = "update_post" /\ answer.status = 500
    /\ answer.detail = "StaleDataError"
    /\ table[answer.post_id] = NoRow

====
